---- MODULE Spec2Model ----
(***************************************************************************)
(* A model of the zCore tutorial kernel core:                              *)
(*   - kernel-hal-unix: the frame allocator (PhysFrame::alloc / Drop) and  *)
(*     the physical-memory accessors (pmem_read, pmem_write, pmem_zero,    *)
(*     frame_copy) over the mmapped frame file;                            *)
(*   - zircon-object: the Rights bit flags;                                *)
(*   - zircon-loader: run_userboot and the thread shim new_thread.         *)
(*                                                                         *)
(* Sizes are scaled: the physical memory has MaxPages pages of PAGE_SIZE   *)
(* bytes (0x40000 pages of 0x1000 bytes in the source), a machine word has *)
(* WordBits bits (64 in the source) and a byte of the frame file is 0 or 1.*)
(***************************************************************************)
EXTENDS Integers, Sequences, FiniteSets, TLC

\* ------------------------------------------------------------------ sizes

\* Number of pages of the simulated physical memory (0x40000 in the source).
MaxPages == 4
\* Bytes of a page (kernel_hal::defs::PAGE_SIZE, 0x1000 in the source).
PAGE_SIZE == 2
\* Bits of a usize.
WordBits == 6

\* const PMEM_SIZE: usize = 0x4000_0000, here MaxPages pages.
PMEM_SIZE == MaxPages * PAGE_SIZE

\* usize arithmetic is modulo Word.
Word == 2 ^ WordBits

\* Option<T>: None, or Some(x).
None == <<>>
Some(x) == <<x>>

\* ------------------------------------------------------------------ state

VARIABLES
    \* kernel-hal-unix: the frame allocator
    AVAILABLE_FRAMES,   \* the VecDeque<usize> behind the Mutex
    live,               \* the PhysFrame values that exist, in allocation order
    fop,                \* the last allocator call: [name, ret]
    ncalls,             \* history: alloc calls made so far (saturating)
    released,           \* history: some frame has been dropped
    ahead,              \* history: per address, the addresses that were in the
                        \* registry when it was last released and have not been
                        \* allocated since
    \* kernel-hal-unix: the physical memory
    pmem,               \* contents of the frame file, by physical address
    mapped,             \* FRAME_FILE has been initialised (file mmapped)
    op,                 \* the call in progress / just finished: [name, ...]
    overflow_checks,    \* the build: arithmetic overflow panics (debug) or wraps
    \* zircon-object: Rights
    lhs, rhs,           \* names of the two Rights operands
    rop,                \* the Rights operator applied
    res,                \* its result
    \* zircon-loader: run_userboot
    bpc,                \* the statement run_userboot is at
    bl,                 \* its locals: entry, userboot_size, stack_bottom, sp, ...
    regions,            \* the child regions of the root Vmar: [name, offset, size]
    handles,            \* the handle table under construction
    kmsgs,              \* the packets written to kernel_channel, in order
    uproc,              \* the userboot process: [state, starts]
    errs,               \* history: the calls that returned an error
    \* zircon-loader: new_thread
    spc,                \* the statement the shim of the first thread is at
    run_signal,         \* the scheduler has dispatched the thread
    shim,               \* history: [tid_set, switches, ...]
    \* kernel-hal-unix: threads using the frame allocator
    tpc,                \* per thread, the statement it is at
    tl,                 \* per thread, the locals of its call
    holder,             \* the thread that holds the Mutex of AVAILABLE_FRAMES
    lazy,               \* lazy_static AVAILABLE_FRAMES: uninit, running, done
    ninit               \* history: times the initialiser has run

frameVars == <<AVAILABLE_FRAMES, live, fop, ncalls, released, ahead>>
pmemVars == <<pmem, mapped, op, overflow_checks>>
rightsVars == <<lhs, rhs, rop, res>>
bootVars == <<bpc, bl, regions, handles, kmsgs, uproc, errs>>
shimVars == <<spc, run_signal, shim>>
threadVars == <<tpc, tl, holder, lazy, ninit>>
vars == <<AVAILABLE_FRAMES, live, fop, ncalls, released, ahead,
          pmem, mapped, op, overflow_checks, lhs, rhs, rop, res,
          bpc, bl, regions, handles, kmsgs, uproc, errs, spc, run_signal, shim,
          tpc, tl, holder, lazy, ninit>>

\* ------------------------------------------------------------------ frames

\* (start..end).step_by(step).collect()
StepByFromZero(start, end, step) ==
    [i \in 1..((end + step - 1) \div step) |-> (i - 1) * step]
StepByShort(start, end, step) ==
    IF end - step <= start THEN <<>>
    ELSE [i \in 1..((end - step - start + step - 1) \div step) |-> start + (i - 1) * step]
StepBy(start, end, step) ==
    IF end <= start THEN <<>>
    ELSE [i \in 1..((end - start + step - 1) \div step) |-> start + (i - 1) * step]

\* VecDeque::pop_front: the front element, if any, and the remaining queue.
pop_front_peek(q) ==
    IF q = <<>> THEN [ret |-> None, queue |-> q]
    ELSE [ret |-> Some(Head(q)), queue |-> q]
pop_back(q) ==
    IF q = <<>> THEN [ret |-> None, queue |-> q]
    ELSE [ret |-> Some(q[Len(q)]), queue |-> SubSeq(q, 1, Len(q) - 1)]
pop_front(q) ==
    IF q = <<>> THEN [ret |-> None, queue |-> q]
    ELSE [ret |-> Some(Head(q)), queue |-> Tail(q)]

\* VecDeque::push_back
push_back_lost(q, x) == q
push_back(q, x) == Append(q, x)

\* struct PhysFrame { paddr }
PhysFrame(paddr) == [paddr |-> paddr]

\* The page-aligned physical addresses (the domain of the history variable ahead).
FrameAddrs == {a \in 0..(PMEM_SIZE - 1) : a % PAGE_SIZE = 0}

SeqRange(s) == {s[i] : i \in 1..Len(s)}
RemoveAt(s, i) == SubSeq(s, 1, i - 1) \o SubSeq(s, i + 1, Len(s))

\* Saturation point of the call counter: one more than the calls claim C4 counts.
CallCap == PMEM_SIZE \div PAGE_SIZE + 1

\* lazy_static! AVAILABLE_FRAMES = Mutex::new((PAGE_SIZE..PMEM_SIZE).step_by(PAGE_SIZE).collect())
FramesInit ==
    /\ AVAILABLE_FRAMES = StepBy(PAGE_SIZE, PMEM_SIZE, PAGE_SIZE)
    /\ live = <<>>
    /\ fop = [name |-> "none", ret |-> None]
    /\ ncalls = 0
    /\ released = FALSE
    /\ ahead = [a \in FrameAddrs |-> {}]

\* PhysFrame::alloc
alloc ==
    LET r == pop_front(AVAILABLE_FRAMES)
        \* .map(|paddr| PhysFrame { paddr })
        ret == IF r.ret = None THEN None ELSE Some(PhysFrame(r.ret[1]))
    IN  /\ AVAILABLE_FRAMES' = r.queue
        /\ live' = IF ret = None THEN live ELSE Append(live, ret[1])
        /\ fop' = [name |-> "alloc", ret |-> ret]
        /\ ncalls' = IF ncalls < CallCap THEN ncalls + 1 ELSE ncalls
        /\ ahead' = IF ret = None THEN ahead
                    ELSE [a \in FrameAddrs |-> ahead[a] \ {ret[1].paddr}]
        /\ UNCHANGED released

\* impl Drop for PhysFrame: the owner of live[i] lets it go.
drop(i) ==
    LET self == live[i]
    IN  /\ AVAILABLE_FRAMES' = push_back(AVAILABLE_FRAMES, self.paddr)
        /\ live' = RemoveAt(live, i)
        /\ fop' = [name |-> "drop", ret |-> Some(self)]
        /\ released' = TRUE
        /\ ahead' = [ahead EXCEPT ![self.paddr] = SeqRange(AVAILABLE_FRAMES)]
        /\ UNCHANGED ncalls

\* PhysFrame::zero_frame_addr
zero_frame_addr == 0

\* ------------------------------------------------------------------ pmem

\* A byte of the frame file (a u8 in the source).
Bytes == {0, 1}

\* const PMEM_BASE: VirtAddr = 0x8_0000_0000: above the physical range, and the
\* whole mapping [PMEM_BASE, PMEM_BASE + PMEM_SIZE) lies inside the address space.
PMEM_BASE == 2 * PMEM_SIZE

\* fn phys_to_virt(paddr): PMEM_BASE + paddr in usize arithmetic.
phys_to_virt(paddr) == (PMEM_BASE + paddr) % Word

\* mmap(fd, 0, PMEM_SIZE, phys_to_virt(0), prot): host address v is backed by
\* byte v - phys_to_virt(0) of the frame file.
InMapping(v) == phys_to_virt(0) <= v /\ v < phys_to_virt(0) + PMEM_SIZE
FileOffset(v) == v - phys_to_virt(0)

\* The host address of byte i (from 0) of an access that starts at vaddr.
HostAddr(vaddr, i) == (vaddr + i) % Word

\* An access of len bytes at vaddr that leaves the mapping (a wild pointer).
Wild(vaddr, len) == \E i \in 0..(len - 1) : ~InMapping(HostAddr(vaddr, i))

\* ptr::copy_to_nonoverlapping(buf -> vaddr) / ptr::write_bytes: the frame file
\* after the bytes were stored at host address vaddr; bytes that land outside
\* the mapping do not reach the file.
StoreShifted(mem, vaddr, bytes) ==
    [a \in DOMAIN mem |->
        IF \E i \in 1..Len(bytes) : HostAddr(vaddr, i) = phys_to_virt(0) + a
        THEN bytes[CHOOSE i \in 1..Len(bytes) : HostAddr(vaddr, i) = phys_to_virt(0) + a]
        ELSE mem[a]]
Store(mem, vaddr, bytes) ==
    [a \in DOMAIN mem |->
        IF \E i \in 1..Len(bytes) : HostAddr(vaddr, i - 1) = phys_to_virt(0) + a
        THEN bytes[CHOOSE i \in 1..Len(bytes) : HostAddr(vaddr, i - 1) = phys_to_virt(0) + a]
        ELSE mem[a]]

\* ptr::copy_to_nonoverlapping(vaddr -> buf): the byte sequences a read of len
\* bytes at host address vaddr can produce; a byte outside the mapping is
\* whatever the host has there.
Load(mem, vaddr, len) ==
    {b \in [1..len -> Bytes] :
        \A i \in 1..len :
            InMapping(HostAddr(vaddr, i - 1)) => b[i] = mem[FileOffset(HostAddr(vaddr, i - 1))]}

\* assert!(paddr + len <= PMEM_SIZE): TRUE when execution goes on past the
\* assertion. The sum is a usize addition: on overflow it panics in a build with
\* overflow checks and wraps in a build without.
AssertRange(paddr, len, checks) ==
    IF paddr + len >= Word
    THEN ~checks /\ (paddr + len) % Word <= PMEM_SIZE
    ELSE paddr + len <= PMEM_SIZE

Zeros(len) == [i \in 1..len |-> 0]

Idle == [name |-> "none", paddr |-> 0, len |-> 0, buf |-> <<>>, target |-> 0,
         status |-> "ok"]

\* The inputs of the accessors: every address of the physical range, the first
\* addresses past it, and the addresses at the top of the address space.
PAddrs == (0..(PMEM_SIZE + 1)) \cup ((Word - PAGE_SIZE)..(Word - 1))
BufLens == 0..PAGE_SIZE
Buffers == UNION {[1..n -> Bytes] : n \in BufLens}
ZeroLens == (0..(PAGE_SIZE + 1)) \cup {PMEM_SIZE, Word - 1}
CopyAddrs == {a \in 0..PMEM_SIZE : a % PAGE_SIZE = 0}
                 \cup {1, PMEM_SIZE - 1, Word - PAGE_SIZE, Word - 1}

\* The frame file is created with set_len(PMEM_SIZE): all zero.
PmemInit ==
    /\ pmem = [a \in 0..(PMEM_SIZE - 1) |-> 0]
    /\ mapped = FALSE
    /\ op = Idle
    /\ overflow_checks \in BOOLEAN

\* The outcome of an unsafe access: "fault" is possible only when it is wild.
AccessStatus(wild) == IF wild THEN {"ok", "fault"} ELSE {"ok"}

\* The outcomes of pmem_read(paddr, buf) with buf.len() = len on the frame file
\* mem: how the call ends and what it leaves in buf.
pmem_read_outcomes(mem, paddr, len, checks) ==
    IF ~AssertRange(paddr, len, checks)
    THEN {[status |-> "abort", buf |-> <<>>]}
    ELSE {[status |-> "ok", buf |-> b] : b \in Load(mem, phys_to_virt(paddr), len)}
            \cup (IF Wild(phys_to_virt(paddr), len)
                  THEN {[status |-> "fault", buf |-> <<>>]} ELSE {})

\* pub fn pmem_read(paddr, buf), buf.len() = len
pmem_read(paddr, len) ==
    /\ op.name = "none"
    /\ UNCHANGED <<pmem, overflow_checks>>
    /\ \E out \in pmem_read_outcomes(pmem, paddr, len, overflow_checks) :
          /\ op' = [Idle EXCEPT !.name = "pmem_read", !.paddr = paddr, !.len = len,
                                !.buf = out.buf, !.status = out.status]
          /\ mapped' = IF out.status = "abort" THEN mapped ELSE TRUE

\* pub fn pmem_write(paddr, buf)
pmem_write(paddr, buf) ==
    /\ op.name = "none"
    /\ UNCHANGED overflow_checks
    /\ IF ~AssertRange(paddr, Len(buf), overflow_checks)
       THEN /\ op' = [Idle EXCEPT !.name = "pmem_write", !.paddr = paddr,
                                  !.len = Len(buf), !.buf = buf, !.status = "abort"]
            /\ UNCHANGED <<pmem, mapped>>
       ELSE /\ mapped' = TRUE
            /\ \E st \in AccessStatus(Wild(phys_to_virt(paddr), Len(buf))) :
                 /\ op' = [Idle EXCEPT !.name = "pmem_write", !.paddr = paddr,
                                       !.len = Len(buf), !.buf = buf, !.status = st]
                 /\ pmem' = IF st = "ok" THEN Store(pmem, phys_to_virt(paddr), buf) ELSE pmem

\* pub fn pmem_zero(paddr, len)
pmem_zero(paddr, len) ==
    /\ op.name = "none"
    /\ UNCHANGED overflow_checks
    /\ IF ~AssertRange(paddr, len, overflow_checks)
       THEN /\ op' = [Idle EXCEPT !.name = "pmem_zero", !.paddr = paddr, !.len = len,
                                  !.status = "abort"]
            /\ UNCHANGED <<pmem, mapped>>
       ELSE /\ mapped' = TRUE
            /\ \E st \in AccessStatus(Wild(phys_to_virt(paddr), len)) :
                 /\ op' = [Idle EXCEPT !.name = "pmem_zero", !.paddr = paddr, !.len = len,
                                       !.status = st]
                 /\ pmem' = IF st = "ok" THEN Store(pmem, phys_to_virt(paddr), Zeros(len))
                             ELSE pmem

\* Two page-sized host ranges share a byte.
Overlap(s, t) ==
    \E i, j \in 0..(PAGE_SIZE - 1) : HostAddr(s, i) = HostAddr(t, j)

\* A byte-by-byte ascending copy of n bytes from host address s to t, from byte i
\* on (what a copy does to ranges that overlap when it does not buffer).
RECURSIVE CopyForward(_, _, _, _, _)
CopyForward(mem, s, t, i, n) ==
    IF i >= n THEN mem
    ELSE CopyForward(Store(mem, HostAddr(t, i), <<mem[FileOffset(HostAddr(s, i))]>>),
                     s, t, i + 1, n)

\* The frame file after buf.copy_to_nonoverlapping(target, PAGE_SIZE) with
\* buf = phys_to_virt(src). Ranges that overlap break the precondition of
\* copy_to_nonoverlapping: the copy may then run buffered or byte by byte.
CopyResultsSwapped(mem, s, t) ==
    {Store(mem, s, b) : b \in Load(mem, t, PAGE_SIZE)}
CopyResults(mem, s, t) ==
    {Store(mem, t, b) : b \in Load(mem, s, PAGE_SIZE)}
        \cup (IF Overlap(s, t) /\ ~Wild(s, PAGE_SIZE) /\ ~Wild(t, PAGE_SIZE)
              THEN {CopyForward(mem, s, t, 0, PAGE_SIZE)} ELSE {})

\* pub fn frame_copy(src, target)
frame_copy(src, target) ==
    /\ op.name = "none"
    /\ UNCHANGED overflow_checks
    /\ LET rec == [Idle EXCEPT !.name = "frame_copy", !.paddr = src, !.target = target,
                               !.len = PAGE_SIZE]
           s == phys_to_virt(src)
           t == phys_to_virt(target)
       IN  IF ~(AssertRange(src, PAGE_SIZE, overflow_checks)
                    /\ AssertRange(target, PAGE_SIZE, overflow_checks))
           THEN /\ op' = [rec EXCEPT !.status = "abort"]
                /\ UNCHANGED <<pmem, mapped>>
           ELSE /\ mapped' = TRUE
                /\ \/ /\ op' = [rec EXCEPT !.status = "ok"]
                      /\ pmem' \in CopyResults(pmem, s, t)
                   \/ /\ Wild(s, PAGE_SIZE) \/ Wild(t, PAGE_SIZE)
                      /\ op' = [rec EXCEPT !.status = "fault"]
                      /\ UNCHANGED pmem
                   \/ \* the debug precondition check of copy_to_nonoverlapping
                      /\ Overlap(s, t)
                      /\ op' = [rec EXCEPT !.status = "abort"]
                      /\ UNCHANGED pmem

\* The call returns to its caller. A panic or a host fault does not return.
Return ==
    /\ op.name # "none"
    /\ op.status = "ok"
    /\ op' = Idle
    /\ UNCHANGED <<pmem, mapped, overflow_checks>>

\* ------------------------------------------------------------------ rights

\* bitflags! { pub struct Rights: u32 }: a value is the set of its set bits.
RightsBits == 0..31

\* 1 << k, in u32
Shl1(k) == IF k \in RightsBits THEN {k} ELSE {}

\* The operators bitflags! generates: |, &, !, -, contains, empty.
BitOr(a, b) == a \cup b
BitAnd(a, b) == a \cap b
BitNot(a) == RightsBits \ a
Sub(a, b) == BitAnd(a, BitNot(b))
contains(a, b) == BitAnd(a, b) = b
empty == {}

DUPLICATE == Shl1(0)
TRANSFER == Shl1(1)
READ == Shl1(2)
WRITE == Shl1(3)
EXECUTE == Shl1(4)
MAP == Shl1(5)
GET_PROPERTY == Shl1(6)
SET_PROPERTY == Shl1(7)
ENUMERATE == Shl1(8)
DESTROY == Shl1(9)
SET_POLICY == Shl1(10)
GET_POLICY == Shl1(11)
SIGNAL == Shl1(12)
SIGNAL_PEER == Shl1(13)
WAIT == Shl1(14)
INSPECT == Shl1(15)
MANAGE_JOB == Shl1(16)
MANAGE_PROCESS == Shl1(17)
MANAGE_THREAD == Shl1(18)
APPLY_PROFILE == Shl1(19)
SAME_RIGHTS == Shl1(31)

BASIC == BitOr(BitOr(BitOr(TRANSFER, DUPLICATE), WAIT), INSPECT)
IO == BitOr(READ, WRITE)
PROPERTY == BitOr(GET_PROPERTY, SET_PROPERTY)
POLICY == BitOr(GET_POLICY, SET_POLICY)

\* BASIC & !DUPLICATE | IO | SIGNAL | SIGNAL_PEER: ! binds tightest, then &, then |
DEFAULT_CHANNEL ==
    BitOr(BitOr(BitOr(BitAnd(BASIC, BitNot(DUPLICATE)), IO), SIGNAL), SIGNAL_PEER)

DEFAULT_PROCESS ==
    BitOr(BitOr(BitOr(BitOr(BitOr(BitOr(BitOr(BASIC, IO), PROPERTY), ENUMERATE), DESTROY),
          SIGNAL), MANAGE_PROCESS), MANAGE_THREAD)

DEFAULT_THREAD ==
    BitOr(BitOr(BitOr(BitOr(BitOr(BASIC, IO), PROPERTY), DESTROY), SIGNAL), MANAGE_THREAD)

\* BASIC & !WAIT (the doc comment above it reads BASIC | WAIT)
DEFAULT_VMAR_as_commented == BitOr(BASIC, WAIT)
DEFAULT_VMAR == BitAnd(BASIC, BitNot(WAIT))

DEFAULT_JOB ==
    BitOr(BitOr(BitOr(BitOr(BitOr(BitOr(BitOr(BitOr(BitOr(BASIC, IO), PROPERTY), POLICY),
          ENUMERATE), DESTROY), SIGNAL), MANAGE_JOB), MANAGE_PROCESS), MANAGE_THREAD)

DEFAULT_VMO == BitOr(BitOr(BitOr(BitOr(BASIC, IO), PROPERTY), MAP), SIGNAL)

DEFAULT_RESOURCE == BitOr(BitOr(BitOr(TRANSFER, DUPLICATE), WRITE), INSPECT)

\* The named constants of Rights, by name.
RightsConst ==
    [DUPLICATE |-> DUPLICATE, TRANSFER |-> TRANSFER, READ |-> READ, WRITE |-> WRITE,
     EXECUTE |-> EXECUTE, MAP |-> MAP, GET_PROPERTY |-> GET_PROPERTY,
     SET_PROPERTY |-> SET_PROPERTY, ENUMERATE |-> ENUMERATE, DESTROY |-> DESTROY,
     SET_POLICY |-> SET_POLICY, GET_POLICY |-> GET_POLICY, SIGNAL |-> SIGNAL,
     SIGNAL_PEER |-> SIGNAL_PEER, WAIT |-> WAIT, INSPECT |-> INSPECT,
     MANAGE_JOB |-> MANAGE_JOB, MANAGE_PROCESS |-> MANAGE_PROCESS,
     MANAGE_THREAD |-> MANAGE_THREAD, APPLY_PROFILE |-> APPLY_PROFILE,
     SAME_RIGHTS |-> SAME_RIGHTS, BASIC |-> BASIC, IO |-> IO, PROPERTY |-> PROPERTY,
     POLICY |-> POLICY, DEFAULT_CHANNEL |-> DEFAULT_CHANNEL,
     DEFAULT_PROCESS |-> DEFAULT_PROCESS, DEFAULT_THREAD |-> DEFAULT_THREAD,
     DEFAULT_VMAR |-> DEFAULT_VMAR, DEFAULT_JOB |-> DEFAULT_JOB,
     DEFAULT_VMO |-> DEFAULT_VMO, DEFAULT_RESOURCE |-> DEFAULT_RESOURCE]
RightsNames == DOMAIN RightsConst

\* Two named Rights are picked; one of the generated operators is then applied.
RightsInit ==
    /\ lhs \in RightsNames
    /\ rhs \in RightsNames
    /\ rop = "none"
    /\ res = empty

RightsBitOr ==
    /\ rop = "none"
    /\ rop' = "bitor"
    /\ res' = BitOr(RightsConst[lhs], RightsConst[rhs])
    /\ UNCHANGED <<lhs, rhs>>

RightsBitAnd ==
    /\ rop = "none"
    /\ rop' = "bitand"
    /\ res' = BitAnd(RightsConst[lhs], RightsConst[rhs])
    /\ UNCHANGED <<lhs, rhs>>

RightsSub ==
    /\ rop = "none"
    /\ rop' = "sub"
    /\ res' = Sub(RightsConst[lhs], RightsConst[rhs])
    /\ UNCHANGED <<lhs, rhs>>

RightsContains ==
    /\ rop = "none"
    /\ rop' = "contains"
    /\ res' = contains(RightsConst[lhs], RightsConst[rhs])
    /\ UNCHANGED <<lhs, rhs>>

\* ------------------------------------------------------------------ loader

\* PAGE_SIZE as the loader uses it: its arithmetic mixes the page size with the
\* byte constants 8 and 16, so the loader keeps the 0x1000 of the source.
LOADER_PAGE_SIZE == 4096
\* Pages of the root Vmar of the userboot process.
VmarPages == 12
\* Largest load-segment span of an ELF image, in pages.
MaxSpanPages == 2
\* Longest command line, in bytes.
MaxCmdLen == 2

\* Indices of the handle table.
K_PROC_SELF == 0
K_VMARROOT_SELF == 1
K_ROOTJOB == 2
K_ROOTRESOURCE == 3
K_ZBI == 4
K_FIRSTVDSO == 5
K_CRASHLOG == 8
K_COUNTERNAMES == 9
K_COUNTERS == 10
K_FISTINSTRUMENTATIONDATA == 11
K_HANDLECOUNT_plus_one == 15 + 1
K_HANDLECOUNT == 15
\* const STACK_PAGES: usize = 8
STACK_PAGES == 8

\* Result<T, E> of a call into a collaborator, as far as run_userboot looks at it.
Results == {"Ok", "Err"}
ResultSeqs(n) == [1..n -> Results]

\* Result::unwrap / Option::expect: TRUE when the value comes out, FALSE when
\* the call panics.
unwrap_or_continue(r) == TRUE
unwrap(r) == r = "Ok"

\* The calls of a block return rs, in order: the position of the call whose
\* unwrap panics (one past the end when none does), whether the statement after
\* call i is reached, the calls that were made and returned an error, and the
\* statement the function is at after the block.
Stop(rs) ==
    IF \A i \in 1..Len(rs) : unwrap(rs[i]) THEN Len(rs) + 1
    ELSE CHOOSE i \in 1..Len(rs) :
             /\ ~unwrap(rs[i])
             /\ \A j \in 1..(i - 1) : unwrap(rs[j])
Passed(rs, i) == i < Stop(rs)
Failed(names, rs) ==
    {names[i] : i \in {j \in 1..Len(rs) : j <= Stop(rs) /\ rs[j] = "Err"}}
After(rs, next) == IF Stop(rs) <= Len(rs) THEN "panic" ELSE next

\* The root Vmar of the process: its base address and its size in bytes.
VmarBase == 16 * LOADER_PAGE_SIZE
VmarSize == VmarPages * LOADER_PAGE_SIZE
PageOffsets == {p * LOADER_PAGE_SIZE : p \in 0..(VmarPages - 1)}
\* Two ranges [o1, o1 + s1) and [o2, o2 + s2) share a byte.
RangesOverlap(o1, s1, o2, s2) == o1 < o2 + s2 /\ o2 < o1 + s1
\* [offset, offset + size) lies in the Vmar and overlaps no child.
Fits(rgns, offset, size) ==
    /\ offset + size <= VmarSize
    /\ \A r \in rgns : ~RangesOverlap(offset, size, r.offset, r.size)
\* Vmar::allocate(None, size, flags, align): some unmapped, non-overlapping
\* sub-region, or an error.
allocate(rgns, size) ==
    {Some(o) : o \in {x \in PageOffsets : Fits(rgns, x, size)}} \cup {None}
\* Vmar::allocate_at(offset, size, flags, align): the sub-region at that offset,
\* an error when it would overlap an existing child.
allocate_at(rgns, offset, size) ==
    IF Fits(rgns, offset, size) THEN Some(offset) ELSE None
\* Vmar::map(None, vmo, 0, len, flags): one mapping of len bytes somewhere free.
map(rgns, len) == allocate(rgns, len)
\* Vmar::addr of the child at an offset of the root.
addr(offset) == VmarBase + offset
\* VmObject::new_paged(pages).len()
vmo_len(pages) == pages * LOADER_PAGE_SIZE
Region(name, offset, size) == [name |-> name, offset |-> offset, size |-> size]
ResultOf(o) == IF o = None THEN "Err" ELSE "Ok"

\* The inputs: load-segment spans and entry offsets of the images, command lines.
Spans == {p * LOADER_PAGE_SIZE : p \in 1..MaxSpanPages}
EntryPoints == {0, 16}
NUL == 0
COLON == 58
CmdBytes == {NUL, COLON, 97}
RECURSIVE SeqsUpTo(_, _)
SeqsUpTo(S, n) ==
    IF n = 0 THEN {<<>>}
    ELSE LET shorter == SeqsUpTo(S, n - 1)
         IN  shorter \cup {Append(s, b) : s \in shorter, b \in S}
\* "a:b:c"
ExampleCmdline == <<97, 58, 98, 58, 99>>
CmdLines == SeqsUpTo(CmdBytes, MaxCmdLen) \cup {ExampleCmdline}

\* (vmar.addr() + elf.header.pt2.entry_point() as usize, size)
entry_at_offset_only(base, e) == e
entry(base, e) == base + e
\* vmar.allocate_at(userboot_size, size, ...): the offset argument.
vdso_offset_zero(userboot_size) == 0
vdso_offset(userboot_size) == userboot_size
\* let sp = stack_bottom + stack_vmo.len() - 8
sp_top(stack_bottom, len) == stack_bottom + len
sp(stack_bottom, len) == stack_bottom + len - 8

\* Handle::new(object, rights)
Handle_new(object, rights) == [object |-> object, rights |-> rights]
\* vec![x; n], indexed from 0.
vec(x, n) == [i \in 0..(n - 1) |-> x]

\* The assignments handles[K_...] = Handle::new(..., ...), in program order.
Assign(idx, object, rights) == [idx |-> idx, object |-> object, rights |-> rights]
HandleAssignments_all_default ==
    << Assign(K_PROC_SELF, "proc", DEFAULT_PROCESS),
       Assign(K_VMARROOT_SELF, "vmar", DEFAULT_VMAR),
       Assign(K_ROOTJOB, "job", DEFAULT_JOB),
       Assign(K_ROOTRESOURCE, "resource", DEFAULT_RESOURCE),
       Assign(K_ZBI, "zbi_vmo", DEFAULT_VMO),
       Assign(K_FIRSTVDSO, "vdso_vmo", DEFAULT_VMO),
       Assign(K_FIRSTVDSO + 1, "vdso_test1", DEFAULT_VMO),
       Assign(K_FIRSTVDSO + 2, "vdso_test2", DEFAULT_VMO),
       Assign(K_CRASHLOG, "crash_log_vmo", DEFAULT_VMO),
       Assign(K_COUNTERNAMES, "counter_name_vmo", DEFAULT_VMO),
       Assign(K_COUNTERS, "kcounters_vmo", DEFAULT_VMO),
       Assign(K_FISTINSTRUMENTATIONDATA, "instrumentation_data_vmo", DEFAULT_VMO),
       Assign(K_FISTINSTRUMENTATIONDATA + 1, "instrumentation_data_vmo", DEFAULT_VMO),
       Assign(K_FISTINSTRUMENTATIONDATA + 2, "instrumentation_data_vmo", DEFAULT_VMO),
       Assign(K_FISTINSTRUMENTATIONDATA + 3, "instrumentation_data_vmo", DEFAULT_VMO) >>
HandleAssignments_zbi_first ==
    << Assign(K_ZBI, "proc", DEFAULT_PROCESS),
       Assign(K_VMARROOT_SELF, "vmar", BitOr(DEFAULT_VMAR, IO)),
       Assign(K_ROOTJOB, "job", DEFAULT_JOB),
       Assign(K_ROOTRESOURCE, "resource", DEFAULT_RESOURCE),
       Assign(K_PROC_SELF, "zbi_vmo", DEFAULT_VMO),
       Assign(K_FIRSTVDSO, "vdso_vmo", BitOr(DEFAULT_VMO, EXECUTE)),
       Assign(K_FIRSTVDSO + 1, "vdso_test1", BitOr(DEFAULT_VMO, EXECUTE)),
       Assign(K_FIRSTVDSO + 2, "vdso_test2", BitOr(DEFAULT_VMO, EXECUTE)),
       Assign(K_CRASHLOG, "crash_log_vmo", DEFAULT_VMO),
       Assign(K_COUNTERNAMES, "counter_name_vmo", DEFAULT_VMO),
       Assign(K_COUNTERS, "kcounters_vmo", DEFAULT_VMO),
       Assign(K_FISTINSTRUMENTATIONDATA, "instrumentation_data_vmo", DEFAULT_VMO),
       Assign(K_FISTINSTRUMENTATIONDATA + 1, "instrumentation_data_vmo", DEFAULT_VMO),
       Assign(K_FISTINSTRUMENTATIONDATA + 2, "instrumentation_data_vmo", DEFAULT_VMO),
       Assign(K_FISTINSTRUMENTATIONDATA + 3, "instrumentation_data_vmo", DEFAULT_VMO) >>
HandleAssignments ==
    << Assign(K_PROC_SELF, "proc", DEFAULT_PROCESS),
       Assign(K_VMARROOT_SELF, "vmar", BitOr(DEFAULT_VMAR, IO)),
       Assign(K_ROOTJOB, "job", DEFAULT_JOB),
       Assign(K_ROOTRESOURCE, "resource", DEFAULT_RESOURCE),
       Assign(K_ZBI, "zbi_vmo", DEFAULT_VMO),
       Assign(K_FIRSTVDSO, "vdso_vmo", BitOr(DEFAULT_VMO, EXECUTE)),
       Assign(K_FIRSTVDSO + 1, "vdso_test1", BitOr(DEFAULT_VMO, EXECUTE)),
       Assign(K_FIRSTVDSO + 2, "vdso_test2", BitOr(DEFAULT_VMO, EXECUTE)),
       Assign(K_CRASHLOG, "crash_log_vmo", DEFAULT_VMO),
       Assign(K_COUNTERNAMES, "counter_name_vmo", DEFAULT_VMO),
       Assign(K_COUNTERS, "kcounters_vmo", DEFAULT_VMO),
       Assign(K_FISTINSTRUMENTATIONDATA, "instrumentation_data_vmo", DEFAULT_VMO),
       Assign(K_FISTINSTRUMENTATIONDATA + 1, "instrumentation_data_vmo", DEFAULT_VMO),
       Assign(K_FISTINSTRUMENTATIONDATA + 2, "instrumentation_data_vmo", DEFAULT_VMO),
       Assign(K_FISTINSTRUMENTATIONDATA + 3, "instrumentation_data_vmo", DEFAULT_VMO) >>
\* The assignments before and after the v-DSO is finished (constants, children).
FirstVdsoAssignment == K_FIRSTVDSO + 1

\* str::replace(':', "\0"): every ':' of the string becomes one NUL.
replace(s) == [i \in 1..Len(s) |-> IF s[i] = COLON THEN NUL ELSE s[i]]
\* Vec::from(cmdline.replace(':', "\0") + "\0")
data_unterminated(cmdline) == replace(cmdline)
data(cmdline) == Append(replace(cmdline), NUL)
\* MessagePacket { data, handles }
MessagePacket(d, h) == [data |-> d, handles |-> h]

\* The locals of run_userboot before it runs.
NoLocals ==
    [entry |-> 0, entry_point |-> 0, userboot_base |-> 0, userboot_size |-> 0,
     stack_bottom |-> 0, sp |-> 0, next |-> 1, handle |-> None,
     cmdline |-> <<>>, ret |-> None]
NoShim ==
    [tid_set |-> FALSE, tid_before_wait |-> TRUE, waited |-> FALSE, switches |-> 0,
     signalled_at_switch |-> TRUE, in_user |-> FALSE, panicked |-> FALSE]
BootIdle ==
    /\ bpc = "create"
    /\ bl = NoLocals
    /\ regions = {}
    /\ handles = << >>
    /\ kmsgs = << >>
    /\ uproc = [state |-> "absent", starts |-> << >>]
    /\ errs = {}
    /\ spc = 0
    /\ run_signal = FALSE
    /\ shim = NoShim

\* let job = Job::root(); let proc = Process::create(..).unwrap();
\* let thread = Thread::create(..).unwrap(); let resource = Resource::create(..);
\* let vmar = proc.vmar();
BootCreate ==
    /\ bpc = "create"
    /\ \E rs \in ResultSeqs(2) :
          /\ errs' = errs \cup Failed(<<"Process::create", "Thread::create">>, rs)
          /\ uproc' = IF Passed(rs, 1) /\ rs[1] = "Ok"
                        THEN [uproc EXCEPT !.state = "unstarted"] ELSE uproc
          /\ bpc' = After(rs, "userboot")
    /\ UNCHANGED <<bl, regions, handles, kmsgs, shimVars>>

\* let (entry, userboot_size) = { ... };
BootUserboot ==
    /\ bpc = "userboot"
    /\ \E size \in Spans, e \in EntryPoints, rs \in ResultSeqs(3) :
       \E o \in allocate(regions, size) :
          /\ rs[2] = ResultOf(o)
          /\ errs' = errs \cup Failed(<<"ElfFile::new(userboot)", "Vmar::allocate",
                                        "Vmar::load_from_elf">>, rs)
          /\ regions' = IF Passed(rs, 2) /\ o # None
                          THEN regions \cup {Region("userboot", o[1], size)}
                          ELSE regions
          /\ bl' = IF Passed(rs, 3) /\ o # None
                     THEN [bl EXCEPT !.entry = entry(addr(o[1]), e),
                                     !.entry_point = e,
                                     !.userboot_base = addr(o[1]),
                                     !.userboot_size = size]
                     ELSE bl
          /\ bpc' = After(rs, "vdso")
    /\ UNCHANGED <<handles, kmsgs, uproc, shimVars>>

\* let vdso_vmo = { ... };
BootVdso ==
    /\ bpc = "vdso"
    /\ \E size \in Spans, rs \in ResultSeqs(8) :
          LET o == allocate_at(regions, vdso_offset(bl.userboot_size), size)
          IN  /\ rs[3] = ResultOf(o)
              /\ errs' = errs \cup
                    Failed(<<"ElfFile::new(vdso)", "vdso_vmo.write(0)",
                             "Vmar::allocate_at", "Vmar::map_from_elf",
                             "get_symbol_address", "vdso_vmo.write(offset)",
                             "vdso_vmo.write(offset + 8)",
                             "vdso_vmo.write(offset + 16)">>, rs)
              /\ regions' = IF Passed(rs, 3)
                              THEN regions \cup
                                   {Region("vdso", vdso_offset(bl.userboot_size), size)}
                              ELSE regions
              /\ bpc' = After(rs, "zbi")
    /\ UNCHANGED <<bl, handles, kmsgs, uproc, shimVars>>

\* let zbi_vmo = { ... };
BootZbi ==
    /\ bpc = "zbi"
    /\ \E rs \in ResultSeqs(1) :
          /\ errs' = errs \cup Failed(<<"zbi_vmo.write(0)">>, rs)
          /\ bpc' = After(rs, "stack")
    /\ UNCHANGED <<bl, regions, handles, kmsgs, uproc, shimVars>>

\* let stack_vmo = VmObject::new_paged(STACK_PAGES); let stack_bottom = vmar.map(..)
\* .unwrap(); let sp = stack_bottom + stack_vmo.len() - 8;
BootStack ==
    /\ bpc = "stack"
    /\ \E rs \in ResultSeqs(1) :
       \E o \in map(regions, vmo_len(STACK_PAGES)) :
          /\ rs[1] = ResultOf(o)
          /\ errs' = errs \cup Failed(<<"Vmar::map">>, rs)
          /\ regions' = IF Passed(rs, 1) /\ o # None
                          THEN regions \cup
                               {Region("stack", o[1], vmo_len(STACK_PAGES))}
                          ELSE regions
          /\ bl' = IF Passed(rs, 1) /\ o # None
                     THEN [bl EXCEPT !.stack_bottom = addr(o[1]),
                                     !.sp = sp(addr(o[1]), vmo_len(STACK_PAGES))]
                     ELSE bl
          /\ bpc' = After(rs, "channel")
    /\ UNCHANGED <<handles, kmsgs, uproc, shimVars>>

\* let (user_channel, kernel_channel) = Channel::create();
\* let handle = Handle::new(user_channel, Rights::DEFAULT_CHANNEL);
\* let mut handles = vec![Handle::new(proc.clone(), Rights::empty()); K_HANDLECOUNT];
BootChannel ==
    /\ bpc = "channel"
    /\ bl' = [bl EXCEPT !.handle = Some(Handle_new("user_channel", DEFAULT_CHANNEL))]
    /\ handles' = vec(Handle_new("proc", empty), K_HANDLECOUNT)
    /\ bpc' = "handles"
    /\ UNCHANGED <<regions, kmsgs, uproc, errs, shimVars>>

\* handles[K_...] = Handle::new(..., ...): the next assignment.  An index past
\* the end of the Vec panics.
BootHandle ==
    /\ bpc = "handles"
    /\ LET a == HandleAssignments[bl.next]
       IN  IF a.idx \in DOMAIN handles
           THEN /\ handles' = [handles EXCEPT ![a.idx] = Handle_new(a.object, a.rights)]
                /\ bl' = [bl EXCEPT !.next = bl.next + 1]
                /\ bpc' = IF bl.next + 1 = FirstVdsoAssignment THEN "vdso_children"
                          ELSE IF bl.next = Len(HandleAssignments) THEN "send"
                          ELSE "handles"
                /\ errs' = errs
           ELSE /\ bpc' = "panic"
                /\ errs' = errs \cup {"index out of bounds"}
                /\ UNCHANGED <<handles, bl>>
    /\ UNCHANGED <<regions, kmsgs, uproc, shimVars>>

\* vdso_vmo.write(VDSO_DATA_CONSTANTS, &constants).unwrap();
\* let vdso_test1 = vdso_vmo.create_child(..).unwrap(); vdso_test2 likewise.
BootVdsoChildren ==
    /\ bpc = "vdso_children"
    /\ \E rs \in ResultSeqs(3) :
          /\ errs' = errs \cup Failed(<<"vdso_vmo.write(VDSO_DATA_CONSTANTS)",
                                        "create_child(vdso_test1)",
                                        "create_child(vdso_test2)">>, rs)
          /\ bpc' = After(rs, "handles")
    /\ UNCHANGED <<bl, regions, handles, kmsgs, uproc, shimVars>>

\* Channel::write(msg): the packet is enqueued for the peer.
write(queue, msg) == Append(queue, msg)

\* let data = ...; let msg = MessagePacket { data, handles };
\* kernel_channel.write(msg).unwrap();
BootSend ==
    /\ bpc = "send"
    /\ \E cmdline \in CmdLines, rs \in ResultSeqs(1) :
          /\ errs' = errs \cup Failed(<<"Channel::write">>, rs)
          /\ kmsgs' = IF rs[1] = "Ok"
                        THEN write(kmsgs, MessagePacket(data(cmdline), handles))
                        ELSE kmsgs
          /\ bl' = [bl EXCEPT !.cmdline = cmdline]
          /\ bpc' = After(rs, "start")
    /\ UNCHANGED <<regions, handles, uproc, shimVars>>

\* Process::start(thread, entry, sp, arg1, arg2, thread_fn): the thread becomes
\* runnable and the task running thread_fn(thread) is spawned.
start(p, thread, e, stack, arg1, arg2) ==
    [state |-> "running",
     starts |-> Append(p.starts, [thread |-> thread, entry |-> e, sp |-> stack,
                                  arg1 |-> arg1, arg2 |-> arg2])]

\* proc.start(&thread, entry, sp, Some(handle), 0, thread_fn).expect(..);
BootStart ==
    /\ bpc = "start"
    /\ \E rs \in ResultSeqs(1) :
          /\ errs' = errs \cup Failed(<<"Process::start">>, rs)
          /\ uproc' = IF rs[1] = "Ok"
                        THEN start(uproc, "thread", bl.entry, bl.sp, bl.handle, 0)
                        ELSE uproc
          /\ spc' = IF rs[1] = "Ok" THEN 1 ELSE spc
          /\ bpc' = After(rs, "return")
    /\ UNCHANGED <<bl, regions, handles, kmsgs, run_signal, shim>>

\* proc
BootReturn ==
    /\ bpc = "return"
    /\ bl' = [bl EXCEPT !.ret = Some("proc")]
    /\ bpc' = "done"
    /\ UNCHANGED <<regions, handles, kmsgs, uproc, errs, shimVars>>

\* async fn new_thread(thread: CurrentThread): its statements, in order.  spc is
\* the position of the statement to run next: 0 before the task is spawned, one
\* past the end had the function returned.
new_thread_switch_first == <<"set_tid", "context_run", "wait_for_run", "panic">>
new_thread == <<"set_tid", "wait_for_run", "context_run", "panic">>
Stmt == IF spc \in 1..Len(new_thread) THEN new_thread[spc] ELSE "none"

\* kernel_hal::Thread::set_tid(thread.id(), thread.proc().id());
ShimSetTid ==
    /\ Stmt = "set_tid"
    /\ shim' = [shim EXCEPT !.tid_set = TRUE]
    /\ spc' = spc + 1
    /\ UNCHANGED <<bootVars, run_signal>>

\* CurrentThread::wait_for_run().await is ready once the run signal has arrived.
wait_for_run(signal) == signal

\* let mut cx = thread.wait_for_run().await;
ShimWaitForRun ==
    /\ Stmt = "wait_for_run"
    /\ wait_for_run(run_signal)
    /\ shim' = [shim EXCEPT !.waited = TRUE, !.tid_before_wait = shim.tid_set]
    /\ spc' = spc + 1
    /\ UNCHANGED <<bootVars, run_signal>>

\* The scheduler dispatches the started thread.
RunSignal ==
    /\ uproc.state = "running"
    /\ ~run_signal
    /\ run_signal' = TRUE
    /\ UNCHANGED <<bootVars, spc, shim>>

\* kernel_hal::context_run(&mut cx): control goes to user mode ...
ShimContextRun ==
    /\ Stmt = "context_run"
    /\ ~shim.in_user
    /\ shim' = [shim EXCEPT !.in_user = TRUE,
                            !.switches = shim.switches + 1,
                            !.signalled_at_switch = run_signal /\ shim.waited]
    /\ UNCHANGED <<bootVars, spc, run_signal>>

\* ... and, if the primitive ever returns, comes back to the shim.
ShimContextReturn ==
    /\ Stmt = "context_run"
    /\ shim.in_user
    /\ shim' = [shim EXCEPT !.in_user = FALSE]
    /\ spc' = spc + 1
    /\ UNCHANGED <<bootVars, run_signal>>

\* panic!("OK! back from user: {:#x?}", cx);
ShimPanic ==
    /\ Stmt = "panic"
    /\ ~shim.panicked
    /\ shim' = [shim EXCEPT !.panicked = TRUE]
    /\ UNCHANGED <<bootVars, spc, run_signal>>

\* ------------------------------------------------------------------ threads

\* Number of host threads that use the frame allocator at once.
NThreads == 2
Threads == 1..NThreads

\* Mutex::lock blocks until no thread holds the mutex.
lock_unguarded(h) == TRUE
lock(h) == h = None

\* The locals of a thread inside alloc or drop: the result of pop_front or
\* push_back it has computed but not yet stored, and the frame it is dropping.
NoCall == [ret |-> None, queue |-> <<>>, self |-> None]

ThreadsIdle ==
    /\ tpc = [t \in Threads |-> "idle"]
    /\ tl = [t \in Threads |-> NoCall]
    /\ holder = None
    /\ lazy = "done"
    /\ ninit = 1

\* Before the first use of AVAILABLE_FRAMES the lazy_static is not initialised
\* and there is no queue.
ThreadsInit ==
    /\ tpc = [t \in Threads |-> "idle"]
    /\ tl = [t \in Threads |-> NoCall]
    /\ holder = None
    /\ lazy = "uninit"
    /\ ninit = 0
    /\ AVAILABLE_FRAMES = <<>>
    /\ live = <<>>
    /\ fop = [name |-> "none", ret |-> None]
    /\ ncalls = 0
    /\ released = FALSE
    /\ ahead = [a \in FrameAddrs |-> {}]

Goto(t, pc) == tpc' = [tpc EXCEPT ![t] = pc]
histVars == <<fop, ncalls, released, ahead>>

\* PhysFrame::alloc() is called.
CallAlloc(t) ==
    /\ tpc[t] = "idle"
    /\ Goto(t, "alloc_deref")
    /\ UNCHANGED <<AVAILABLE_FRAMES, live, histVars, tl, holder, lazy, ninit>>

\* A PhysFrame goes out of scope in thread t: Drop::drop(&mut self) is called.
CallDrop(t, i) ==
    /\ tpc[t] = "idle"
    /\ tl' = [tl EXCEPT ![t].self = Some(live[i])]
    /\ live' = RemoveAt(live, i)
    /\ Goto(t, "drop_deref")
    /\ UNCHANGED <<AVAILABLE_FRAMES, histVars, holder, lazy, ninit>>

\* AVAILABLE_FRAMES is dereferenced (lazy_static): the first thread to come runs
\* the initialiser, a thread that comes while it runs waits, later ones pass.
LazyBegin(t) ==
    /\ tpc[t] \in {"alloc_deref", "drop_deref"}
    /\ lazy = "uninit"
    /\ lazy' = "running"
    /\ Goto(t, IF tpc[t] = "alloc_deref" THEN "alloc_init" ELSE "drop_init")
    /\ UNCHANGED <<AVAILABLE_FRAMES, live, histVars, tl, holder, ninit>>

\* Mutex::new((PAGE_SIZE..PMEM_SIZE).step_by(PAGE_SIZE).collect())
LazyFinish(t) ==
    /\ tpc[t] \in {"alloc_init", "drop_init"}
    /\ AVAILABLE_FRAMES' = StepBy(PAGE_SIZE, PMEM_SIZE, PAGE_SIZE)
    /\ ninit' = ninit + 1
    /\ lazy' = "done"
    /\ Goto(t, IF tpc[t] = "alloc_init" THEN "alloc_lock" ELSE "drop_lock")
    /\ UNCHANGED <<live, histVars, tl, holder>>

LazyReady(t) ==
    /\ tpc[t] \in {"alloc_deref", "drop_deref"}
    /\ lazy = "done"
    /\ Goto(t, IF tpc[t] = "alloc_deref" THEN "alloc_lock" ELSE "drop_lock")
    /\ UNCHANGED <<AVAILABLE_FRAMES, live, histVars, tl, holder, lazy, ninit>>

\* .lock().unwrap()
Lock(t) ==
    /\ tpc[t] \in {"alloc_lock", "drop_lock"}
    /\ lock(holder)
    /\ holder' = Some(t)
    /\ Goto(t, IF tpc[t] = "alloc_lock" THEN "alloc_pop" ELSE "drop_push")
    /\ UNCHANGED <<AVAILABLE_FRAMES, live, histVars, tl, lazy, ninit>>

\* .pop_front(): the queue is read ...
AllocPopRead(t) ==
    /\ tpc[t] = "alloc_pop"
    /\ LET r == pop_front(AVAILABLE_FRAMES)
       IN  tl' = [tl EXCEPT ![t].ret = r.ret, ![t].queue = r.queue]
    /\ Goto(t, "alloc_pop_store")
    /\ UNCHANGED <<AVAILABLE_FRAMES, live, histVars, holder, lazy, ninit>>

\* ... and stored without its front.
AllocPopStore(t) ==
    /\ tpc[t] = "alloc_pop_store"
    /\ AVAILABLE_FRAMES' = tl[t].queue
    /\ tl' = [tl EXCEPT ![t].queue = <<>>]
    /\ Goto(t, "alloc_unlock")
    /\ UNCHANGED <<live, histVars, holder, lazy, ninit>>

\* The MutexGuard is a temporary of the let statement: it is dropped at its end.
AllocUnlock(t) ==
    /\ tpc[t] = "alloc_unlock"
    /\ holder' = None
    /\ Goto(t, "alloc_ret")
    /\ UNCHANGED <<AVAILABLE_FRAMES, live, histVars, tl, lazy, ninit>>

\* trace!(..); ret
AllocReturn(t) ==
    /\ tpc[t] = "alloc_ret"
    /\ live' = IF tl[t].ret = None THEN live
               ELSE Append(live, PhysFrame(tl[t].ret[1]))
    /\ tl' = [tl EXCEPT ![t] = NoCall]
    /\ Goto(t, "idle")
    /\ UNCHANGED <<AVAILABLE_FRAMES, histVars, holder, lazy, ninit>>

\* .push_back(self.paddr): the queue is read ...
DropPushRead(t) ==
    /\ tpc[t] = "drop_push"
    /\ tl' = [tl EXCEPT ![t].queue = push_back(AVAILABLE_FRAMES, tl[t].self[1].paddr)]
    /\ Goto(t, "drop_push_store")
    /\ UNCHANGED <<AVAILABLE_FRAMES, live, histVars, holder, lazy, ninit>>

\* ... and stored with the address at its back.
DropPushStore(t) ==
    /\ tpc[t] = "drop_push_store"
    /\ AVAILABLE_FRAMES' = tl[t].queue
    /\ tl' = [tl EXCEPT ![t] = NoCall]
    /\ Goto(t, "drop_unlock")
    /\ UNCHANGED <<live, histVars, holder, lazy, ninit>>

\* The MutexGuard is dropped at the end of the statement, and drop returns.
DropUnlock(t) ==
    /\ tpc[t] = "drop_unlock"
    /\ holder' = None
    /\ Goto(t, "idle")
    /\ UNCHANGED <<AVAILABLE_FRAMES, live, histVars, tl, lazy, ninit>>

\* pmem_read, pmem_write, pmem_zero or frame_copy is called: none of them
\* touches AVAILABLE_FRAMES.
PmemCall(t) ==
    /\ tpc[t] = "idle"
    /\ Goto(t, "pmem")
    /\ UNCHANGED <<AVAILABLE_FRAMES, live, histVars, tl, holder, lazy, ninit>>

PmemReturn(t) ==
    /\ tpc[t] = "pmem"
    /\ Goto(t, "idle")
    /\ UNCHANGED <<AVAILABLE_FRAMES, live, histVars, tl, holder, lazy, ninit>>

\* ------------------------------------------------------------------ specifications

\* The parts of the state a specification does not exercise stay as constructed.
FramesIdle ==
    /\ FramesInit
PmemIdle ==
    /\ pmem = [a \in 0..(PMEM_SIZE - 1) |-> 0]
    /\ mapped = FALSE
    /\ op = Idle
    /\ overflow_checks = TRUE
RightsIdle ==
    /\ lhs = "DUPLICATE"
    /\ rhs = "DUPLICATE"
    /\ rop = "none"
    /\ res = empty

\* The frame allocator.
Init == FramesInit /\ PmemIdle /\ RightsIdle /\ BootIdle /\ ThreadsIdle
Next ==
    \/ alloc /\ UNCHANGED <<pmemVars, rightsVars, bootVars, shimVars, threadVars>>
    \/ \E i \in 1..Len(live) : drop(i) /\ UNCHANGED <<pmemVars, rightsVars, bootVars, shimVars, threadVars>>
Spec == Init /\ [][Next]_vars

\* The physical-memory accessors.
InitPmem == PmemInit /\ FramesIdle /\ RightsIdle /\ BootIdle /\ ThreadsIdle
NextPmem ==
    \/ \E paddr \in PAddrs, len \in BufLens :
          pmem_read(paddr, len) /\ UNCHANGED <<frameVars, rightsVars, bootVars, shimVars, threadVars>>
    \/ \E paddr \in PAddrs, buf \in Buffers :
          pmem_write(paddr, buf) /\ UNCHANGED <<frameVars, rightsVars, bootVars, shimVars, threadVars>>
    \/ \E paddr \in PAddrs, len \in ZeroLens :
          pmem_zero(paddr, len) /\ UNCHANGED <<frameVars, rightsVars, bootVars, shimVars, threadVars>>
    \/ \E src \in CopyAddrs, target \in CopyAddrs :
          frame_copy(src, target) /\ UNCHANGED <<frameVars, rightsVars, bootVars, shimVars, threadVars>>
    \/ Return /\ UNCHANGED <<frameVars, rightsVars, bootVars, shimVars, threadVars>>
SpecPmem == InitPmem /\ [][NextPmem]_vars

\* The Rights operators on the named constants.
InitRights == RightsInit /\ FramesIdle /\ PmemIdle /\ BootIdle /\ ThreadsIdle
NextRights ==
    \/ RightsBitOr /\ UNCHANGED <<frameVars, pmemVars, bootVars, shimVars, threadVars>>
    \/ RightsBitAnd /\ UNCHANGED <<frameVars, pmemVars, bootVars, shimVars, threadVars>>
    \/ RightsSub /\ UNCHANGED <<frameVars, pmemVars, bootVars, shimVars, threadVars>>
    \/ RightsContains /\ UNCHANGED <<frameVars, pmemVars, bootVars, shimVars, threadVars>>
SpecRights == InitRights /\ [][NextRights]_vars

\* The loader: run_userboot, then the shim of the thread it starts.
InitBoot == BootIdle /\ FramesIdle /\ PmemIdle /\ RightsIdle /\ ThreadsIdle
NextBoot ==
    \/ BootCreate /\ UNCHANGED <<frameVars, pmemVars, rightsVars, threadVars>>
    \/ BootUserboot /\ UNCHANGED <<frameVars, pmemVars, rightsVars, threadVars>>
    \/ BootVdso /\ UNCHANGED <<frameVars, pmemVars, rightsVars, threadVars>>
    \/ BootZbi /\ UNCHANGED <<frameVars, pmemVars, rightsVars, threadVars>>
    \/ BootStack /\ UNCHANGED <<frameVars, pmemVars, rightsVars, threadVars>>
    \/ BootChannel /\ UNCHANGED <<frameVars, pmemVars, rightsVars, threadVars>>
    \/ BootHandle /\ UNCHANGED <<frameVars, pmemVars, rightsVars, threadVars>>
    \/ BootVdsoChildren /\ UNCHANGED <<frameVars, pmemVars, rightsVars, threadVars>>
    \/ BootSend /\ UNCHANGED <<frameVars, pmemVars, rightsVars, threadVars>>
    \/ BootStart /\ UNCHANGED <<frameVars, pmemVars, rightsVars, threadVars>>
    \/ BootReturn /\ UNCHANGED <<frameVars, pmemVars, rightsVars, threadVars>>
    \/ ShimSetTid /\ UNCHANGED <<frameVars, pmemVars, rightsVars, threadVars>>
    \/ ShimWaitForRun /\ UNCHANGED <<frameVars, pmemVars, rightsVars, threadVars>>
    \/ RunSignal /\ UNCHANGED <<frameVars, pmemVars, rightsVars, threadVars>>
    \/ ShimContextRun /\ UNCHANGED <<frameVars, pmemVars, rightsVars, threadVars>>
    \/ ShimContextReturn /\ UNCHANGED <<frameVars, pmemVars, rightsVars, threadVars>>
    \/ ShimPanic /\ UNCHANGED <<frameVars, pmemVars, rightsVars, threadVars>>
SpecBoot == InitBoot /\ [][NextBoot]_vars


\* The frame allocator used by several threads, with the pmem accessors.
InitThreads == ThreadsInit /\ PmemIdle /\ RightsIdle /\ BootIdle
NextThreads ==
    \/ \E t \in Threads : CallAlloc(t) /\ UNCHANGED <<pmemVars, rightsVars, bootVars, shimVars>>
    \/ \E t \in Threads, i \in 1..Len(live) :
          CallDrop(t, i) /\ UNCHANGED <<pmemVars, rightsVars, bootVars, shimVars>>
    \/ \E t \in Threads : LazyBegin(t) /\ UNCHANGED <<pmemVars, rightsVars, bootVars, shimVars>>
    \/ \E t \in Threads : LazyFinish(t) /\ UNCHANGED <<pmemVars, rightsVars, bootVars, shimVars>>
    \/ \E t \in Threads : LazyReady(t) /\ UNCHANGED <<pmemVars, rightsVars, bootVars, shimVars>>
    \/ \E t \in Threads : Lock(t) /\ UNCHANGED <<pmemVars, rightsVars, bootVars, shimVars>>
    \/ \E t \in Threads : AllocPopRead(t) /\ UNCHANGED <<pmemVars, rightsVars, bootVars, shimVars>>
    \/ \E t \in Threads : AllocPopStore(t) /\ UNCHANGED <<pmemVars, rightsVars, bootVars, shimVars>>
    \/ \E t \in Threads : AllocUnlock(t) /\ UNCHANGED <<pmemVars, rightsVars, bootVars, shimVars>>
    \/ \E t \in Threads : AllocReturn(t) /\ UNCHANGED <<pmemVars, rightsVars, bootVars, shimVars>>
    \/ \E t \in Threads : DropPushRead(t) /\ UNCHANGED <<pmemVars, rightsVars, bootVars, shimVars>>
    \/ \E t \in Threads : DropPushStore(t) /\ UNCHANGED <<pmemVars, rightsVars, bootVars, shimVars>>
    \/ \E t \in Threads : DropUnlock(t) /\ UNCHANGED <<pmemVars, rightsVars, bootVars, shimVars>>
    \/ \E t \in Threads : PmemCall(t) /\ UNCHANGED <<pmemVars, rightsVars, bootVars, shimVars>>
    \/ \E t \in Threads : PmemReturn(t) /\ UNCHANGED <<pmemVars, rightsVars, bootVars, shimVars>>
SpecThreads == InitThreads /\ [][NextThreads]_vars

\* ------------------------------------------------------------------ claims: frames

\* The addresses of the live frames and of the registry, as sets.
LiveAddrs == {live[i].paddr : i \in 1..Len(live)}
FreeAddrs == SeqRange(AVAILABLE_FRAMES)

\* Total page count minus the reserved zero page.
NumFrames == PMEM_SIZE \div PAGE_SIZE - 1

\* The step just taken was a call of alloc / a drop of a frame.
AllocStep == fop'.name = "alloc"
DropStep == fop'.name = "drop"

\* C1: no two simultaneously live frames ever hold the same physical address.
C1_LiveFramesDistinct ==
    \A i, j \in 1..Len(live) : i # j => live[i].paddr # live[j].paddr
\* Two frames are live after a release and a further allocation.
C1_Witness == released /\ fop.name = "alloc" /\ fop.ret # None /\ Len(live) >= 2

\* C2: a frame address (a page address in [PAGE_SIZE, PMEM_SIZE), the addresses the
\* registry is built from) is in the registry if and only if no live frame owns
\* it; the registry never holds an address twice and never the address of a live
\* frame; any other physical address (the reserved zero page, an address inside a
\* page) is in neither.
C2_RegistryIffNotLive ==
    /\ \A a \in 0..(PMEM_SIZE - 1) :
          IF a % PAGE_SIZE = 0 /\ a >= PAGE_SIZE
          THEN (a \in FreeAddrs) <=> (a \notin LiveAddrs)
          ELSE a \notin FreeAddrs /\ a \notin LiveAddrs
    /\ \A i, j \in 1..Len(AVAILABLE_FRAMES) :
          i # j => AVAILABLE_FRAMES[i] # AVAILABLE_FRAMES[j]
    /\ FreeAddrs \cap LiveAddrs = {}
\* An address went out, came back and the registry and the live set are both in use.
C2_Witness ==
    /\ released /\ fop.name = "drop"
    /\ AVAILABLE_FRAMES # <<>> /\ live # <<>>
    /\ fop.ret[1].paddr \in FreeAddrs

\* C3: the number of registry entries plus the number of live frames is constant,
\* PMEM_SIZE/PAGE_SIZE - 1.
C3_CountConstant ==
    Len(AVAILABLE_FRAMES) + Len(live) = PMEM_SIZE \div PAGE_SIZE - 1
\* After a release, with frames on both sides.
C3_Witness ==
    released /\ Len(live) >= 1 /\ Len(AVAILABLE_FRAMES) >= 2 /\ fop.name = "alloc"

\* C4: with nothing released, exactly the first PMEM_SIZE/PAGE_SIZE - 1 calls of
\* alloc return a frame and every later one returns None; a call on an empty
\* registry returns None and leaves the registry unchanged (and the call returns:
\* the allocator goes on).
C4_Exhaustion ==
    /\ [](~released /\ fop.name = "alloc"
            => ((fop.ret # None) <=> (ncalls <= NumFrames)))
    /\ [][AllocStep /\ AVAILABLE_FRAMES = <<>>
            => fop'.ret = None /\ AVAILABLE_FRAMES' = <<>> /\ live' = live]_vars
\* The call after the last successful one returned None.
C4_Witness ==
    ~released /\ fop.name = "alloc" /\ fop.ret = None /\ ncalls = NumFrames + 1

\* C5: every live frame's address and every registry entry is a multiple of
\* PAGE_SIZE in [PAGE_SIZE, PMEM_SIZE), never the zero page.
C5_ZeroPageReserved ==
    \A a \in LiveAddrs \cup FreeAddrs :
        /\ a % PAGE_SIZE = 0
        /\ PAGE_SIZE <= a /\ a < PMEM_SIZE
        /\ a # zero_frame_addr
\* The lowest address has been handed out a second time and every frame is live.
C5_Witness ==
    /\ released /\ fop.name = "alloc" /\ fop.ret = Some(PhysFrame(PAGE_SIZE))
    /\ AVAILABLE_FRAMES = <<>>

\* C6: allocation is FIFO: alloc returns the front of the registry, a release
\* appends to its back; with nothing released the frames come out in ascending
\* order from PAGE_SIZE; and a released address is handed out again only after every
\* address that was in the registry when it was released has been allocated.
C6_Fifo ==
    /\ [](~released => \A i \in 1..Len(live) : live[i].paddr = i * PAGE_SIZE)
    /\ [][AllocStep /\ AVAILABLE_FRAMES # <<>>
            => /\ fop'.ret = Some(PhysFrame(Head(AVAILABLE_FRAMES)))
               /\ AVAILABLE_FRAMES' = Tail(AVAILABLE_FRAMES)
               /\ ahead[Head(AVAILABLE_FRAMES)] = {}]_vars
    /\ [][DropStep
            => AVAILABLE_FRAMES' = Append(AVAILABLE_FRAMES, fop'.ret[1].paddr)]_vars
\* A released address was handed out again while other frames were released after it.
C6_Witness ==
    /\ released /\ fop.name = "alloc" /\ fop.ret # None
    /\ ncalls > NumFrames
    /\ Len(AVAILABLE_FRAMES) >= 1

\* ------------------------------------------------------------------ claims: pmem

\* The call op accesses a range that extends past PMEM_SIZE (in unbounded
\* arithmetic: the sum does not wrap here).
PastEnd(o) ==
    IF o.name = "frame_copy"
    THEN o.paddr + PAGE_SIZE > PMEM_SIZE \/ o.target + PAGE_SIZE > PMEM_SIZE
    ELSE o.paddr + o.len > PMEM_SIZE

\* A call was made in the step just taken.
CallStep == op.name = "none" /\ op'.name # "none"

\* C7: pmem_read, pmem_write, pmem_zero and frame_copy abort, without modifying
\* the backing store, whenever the accessed range extends past PMEM_SIZE, for every
\* paddr and len of the machine word, sums that overflow included.
C7_OutOfRangeAborts ==
    [][CallStep /\ PastEnd(op') => op'.status = "abort" /\ pmem' = pmem]_vars

\* C8: for every buffer b and address p with p + len(b) <= PMEM_SIZE,
\* pmem_write(p, b) succeeds, pmem_read of len(b) bytes at p then returns exactly b,
\* and the write leaves every byte outside [p, p + len(b)) unchanged.
C8_RoundTrip ==
    /\ [](op.name = "pmem_write" /\ ~PastEnd(op)
            => /\ op.status = "ok"
               /\ pmem_read_outcomes(pmem, op.paddr, Len(op.buf), overflow_checks)
                     = {[status |-> "ok", buf |-> op.buf]})
    /\ [][CallStep /\ op'.name = "pmem_write" /\ ~PastEnd(op')
            => \A a \in 0..(PMEM_SIZE - 1) :
                  (a < op'.paddr \/ a >= op'.paddr + Len(op'.buf)) => pmem'[a] = pmem[a]]_vars
    /\ [](op.name = "pmem_read" /\ ~PastEnd(op)
            => /\ op.status = "ok"
               /\ op.buf = [i \in 1..op.len |-> pmem[op.paddr + i - 1]])
\* A full buffer with a 1 in it was written at an odd address over a memory that
\* holds a 1 elsewhere.
C8_Witness ==
    /\ op.name = "pmem_write" /\ op.status = "ok"
    /\ op.paddr % PAGE_SIZE = 1 /\ Len(op.buf) = PAGE_SIZE /\ op.buf[PAGE_SIZE] = 1
    /\ \E a \in 0..(PMEM_SIZE - 1) : a < op.paddr /\ pmem[a] = 1

\* The page-aligned in-range pairs of C9.
AlignedInRange(o) ==
    /\ o.paddr % PAGE_SIZE = 0 /\ o.target % PAGE_SIZE = 0
    /\ ~PastEnd(o)

\* C9: for page-aligned src and dst in range, after frame_copy(src, dst) the page at
\* dst equals the page that was at src when the call was made, the src page is
\* unchanged and no byte outside the dst page is modified. (With src # dst the call
\* always returns; with src = dst the two ranges overlap and it may stop instead.)
C9_FrameCopy ==
    /\ [][CallStep /\ op'.name = "frame_copy" /\ AlignedInRange(op') /\ op'.status = "ok"
            => /\ \A i \in 0..(PAGE_SIZE - 1) :
                     /\ pmem'[op'.target + i] = pmem[op'.paddr + i]
                     /\ pmem'[op'.paddr + i] = pmem[op'.paddr + i]
               /\ \A a \in 0..(PMEM_SIZE - 1) :
                     (a < op'.target \/ a >= op'.target + PAGE_SIZE) => pmem'[a] = pmem[a]]_vars
    /\ [](op.name = "frame_copy" /\ AlignedInRange(op) /\ op.paddr # op.target
            => op.status = "ok")
\* A page holding a 1 was copied onto another page.
C9_Witness ==
    /\ op.name = "frame_copy" /\ op.status = "ok" /\ AlignedInRange(op)
    /\ op.paddr # op.target
    /\ pmem[op.paddr + PAGE_SIZE - 1] = 1 /\ pmem[op.target + PAGE_SIZE - 1] = 1
    /\ pmem[op.paddr] = 0

\* ------------------------------------------------------------------ claims: rights

\* The primitive bits a stated formula names, and the mask they make together.
BasicBits == {"TRANSFER", "DUPLICATE", "WAIT", "INSPECT"}
IoBits == {"READ", "WRITE"}
PropertyBits == {"GET_PROPERTY", "SET_PROPERTY"}
PolicyBits == {"GET_POLICY", "SET_POLICY"}
PrimitiveNames ==
    {"DUPLICATE", "TRANSFER", "READ", "WRITE", "EXECUTE", "MAP", "GET_PROPERTY",
     "SET_PROPERTY", "ENUMERATE", "DESTROY", "SET_POLICY", "GET_POLICY", "SIGNAL",
     "SIGNAL_PEER", "WAIT", "INSPECT", "MANAGE_JOB", "MANAGE_PROCESS", "MANAGE_THREAD",
     "APPLY_PROFILE", "SAME_RIGHTS"}
DefaultNames ==
    {"DEFAULT_CHANNEL", "DEFAULT_PROCESS", "DEFAULT_THREAD", "DEFAULT_VMAR",
     "DEFAULT_JOB", "DEFAULT_VMO", "DEFAULT_RESOURCE"}
FromPrimitives(names) == UNION {RightsConst[n] : n \in names}

TableBuilt == bpc \in {"send", "start", "return", "done"}
\* The packets on the kernel-side endpoint.
Sent == {kmsgs[i] : i \in 1..Len(kmsgs)}
\* The number of slots of a table.
Slots(t) == Cardinality(DOMAIN t)

\* C11 (as stated): the handle table produced by run_userboot and sent in the
\* bootstrap message has 16 slots.
C11_TableLength16 ==
    /\ TableBuilt => Slots(handles) = 16
    /\ \A m \in Sent : Slots(m.handles) = 16

\* C11 (amended): the handle table produced by run_userboot and sent in the
\* bootstrap message has 15 slots, indices 0 to 14.
C11_TableLength15 ==
    /\ TableBuilt => DOMAIN handles = 0..14
    /\ \A m \in Sent : DOMAIN m.handles = 0..14
C11_Witness == Len(kmsgs) = 1 /\ Slots(kmsgs[1].handles) = 15

\* The object behind each index of the table, as the layout fixes it.
Layout ==
    [i \in 0..14 |->
        CASE i = 0 -> "proc"
          [] i = 1 -> "vmar"
          [] i = 2 -> "job"
          [] i = 3 -> "resource"
          [] i = 4 -> "zbi_vmo"
          [] i = 5 -> "vdso_vmo"
          [] i = 6 -> "vdso_test1"
          [] i = 7 -> "vdso_test2"
          [] i = 8 -> "crash_log_vmo"
          [] i = 9 -> "counter_name_vmo"
          [] i = 10 -> "kcounters_vmo"
          [] OTHER -> "instrumentation_data_vmo"]

\* C12: the packet carries the handle table in index order with the fixed
\* layout (0 process, 1 root Vmar, 2 root Job, 3 root Resource, 4 ZBI, 5..7 the
\* v-DSO and its two children, 8 crash log, 9 counter names, 10 counter data,
\* 11..14 one and the same placeholder Vmo); no slot is empty, and while the
\* table is being filled a slot not yet assigned holds a handle to the process
\* with empty rights.
C12_TableLayout ==
    /\ \A m \in Sent :
          /\ m.handles = handles
          /\ \A i \in DOMAIN m.handles : m.handles[i].object = Layout[i]
          /\ m.handles[11].object = m.handles[12].object
          /\ m.handles[12].object = m.handles[13].object
          /\ m.handles[13].object = m.handles[14].object
    /\ \A i \in DOMAIN handles :
          \/ handles[i] = [object |-> "proc", rights |-> {}]
          \/ handles[i].object = Layout[i]
    /\ TableBuilt => \A i \in DOMAIN handles : handles[i].object = Layout[i]
C12_Witness ==
    /\ Len(kmsgs) = 1
    /\ kmsgs[1].handles[0].object = "proc"
    /\ kmsgs[1].handles[14].object = "instrumentation_data_vmo"

\* C13: the payload of the packet is the command line with each ':' replaced by
\* a NUL, followed by exactly one NUL, the other bytes unchanged and in order;
\* "a:b:c" gives "a\0b\0c\0" and the payload has one byte more than the
\* command line.
C13_Payload ==
    \A m \in Sent :
        /\ Len(m.data) = Len(bl.cmdline) + 1
        /\ m.data[Len(m.data)] = 0
        /\ \A i \in 1..Len(bl.cmdline) :
              /\ bl.cmdline[i] = 58 => m.data[i] = 0
              /\ bl.cmdline[i] # 58 => m.data[i] = bl.cmdline[i]
        /\ bl.cmdline = <<97, 58, 98, 58, 99>> => m.data = <<97, 0, 98, 0, 99, 0>>
C13_Witness ==
    /\ Len(kmsgs) = 1
    /\ bl.cmdline = <<97, 58, 98, 58, 99>>
    /\ kmsgs[1].data = <<97, 0, 98, 0, 99, 0>>

\* The regions of a name.
Named(name) == {r \in regions : r.name = name}

C15_StackPointer ==
    \A s \in Named("stack") :
        LET B == VmarBase + s.offset
            top == B + 8 * 4096
        IN  /\ s.size = 8 * 4096
            /\ bl.stack_bottom = B
            /\ bl.sp = top - 8
            /\ B % 4096 = 0
            /\ (bl.sp + 8) % 16 = 0
            /\ B <= bl.sp /\ bl.sp < top
            /\ \A i \in 1..Len(uproc.starts) : uproc.starts[i].sp = top - 8
C15_Witness ==
    /\ Len(uproc.starts) = 1
    /\ \E s \in Named("stack") :
          uproc.starts[1].sp = VmarBase + s.offset + 8 * 4096 - 8

\* The default Rights of the kind of each object the bootstrap makes a handle of.
DefaultOfObject ==
    [o \in {"user_channel", "proc", "vmar", "job", "resource", "zbi_vmo",
            "vdso_vmo", "vdso_test1", "vdso_test2", "crash_log_vmo",
            "counter_name_vmo", "kcounters_vmo", "instrumentation_data_vmo"} |->
        CASE o = "user_channel" -> DEFAULT_CHANNEL
          [] o = "proc" -> DEFAULT_PROCESS
          [] o = "vmar" -> DEFAULT_VMAR
          [] o = "job" -> DEFAULT_JOB
          [] o = "resource" -> DEFAULT_RESOURCE
          [] OTHER -> DEFAULT_VMO]
\* The handles the bootstrap has handed out: the startup argument of the
\* thread and the slots of the packets.
Minted ==
    {uproc.starts[i].arg1[1] : i \in 1..Len(uproc.starts)}
        \cup UNION {{m.handles[i] : i \in DOMAIN m.handles} : m \in Sent}

\* C16 (as stated): every handle of the bootstrap carries exactly the default
\* Rights of the kind of its object, with no extra bits.
C16_ExactlyDefaultRights ==
    \A h \in Minted : h.rights = DefaultOfObject[h.object]

\* C16 (amended): every handle of the bootstrap carries exactly the default
\* Rights of the kind of its object, except the root Vmar handle, which carries
\* DEFAULT_VMAR with READ and WRITE added, and the three v-DSO handles, which
\* carry DEFAULT_VMO with EXECUTE added.
C16_DefaultRightsButVmarAndVdso ==
    \A h \in Minted :
        h.rights =
            CASE h.object = "vmar" -> DefaultOfObject[h.object] \cup {2, 3}
              [] h.object \in {"vdso_vmo", "vdso_test1", "vdso_test2"} ->
                    DefaultOfObject[h.object] \cup {4}
              [] OTHER -> DefaultOfObject[h.object]
C16_Witness ==
    /\ Len(uproc.starts) = 1
    /\ \E h \in Minted : h.object = "vmar" /\ h.rights # DEFAULT_VMAR
    /\ \E h \in Minted : h.object = "vdso_test2" /\ 4 \in h.rights

\* run_userboot got through every statement.
Succeeded == bpc \in {"return", "done"}

\* C17: in a successful run the packet is written exactly once, before the
\* thread is started; the thread is started exactly once, at the base of the
\* loader-stub region plus the ELF entry offset, with the user-side channel
\* handle as its argument; the process only goes from unstarted to running and
\* stays there.
C17_SendThenStart ==
    /\ [](/\ Len(kmsgs) <= 1
          /\ Len(uproc.starts) <= 1
          /\ Succeeded => Len(kmsgs) = 1 /\ Len(uproc.starts) = 1
          /\ uproc.starts # << >> => Len(kmsgs) = 1
          /\ uproc.state = "running" <=> uproc.starts # << >>
          /\ \A i \in 1..Len(uproc.starts) :
                /\ \E u \in Named("userboot") :
                      uproc.starts[i].entry = VmarBase + u.offset + bl.entry_point
                /\ uproc.starts[i].arg1 =
                      <<[object |-> "user_channel", rights |-> DEFAULT_CHANNEL]>>
                /\ uproc.starts[i].arg2 = 0)
    /\ [][/\ uproc.state' # uproc.state =>
                \/ uproc.state = "absent" /\ uproc.state' = "unstarted"
                \/ uproc.state = "unstarted" /\ uproc.state' = "running"
          /\ uproc.starts' # uproc.starts => kmsgs' = kmsgs /\ Len(kmsgs) = 1]_vars
C17_Witness ==
    /\ bpc = "done"
    /\ uproc.state = "running"
    /\ Len(kmsgs) = 1
    /\ uproc.starts[1].entry > VmarBase

\* C18: a failure of any step is fatal: run_userboot aborts at the call that
\* failed, makes no later step (the thread is never started after a failure)
\* and returns no Process.
C18_FailureIsFatal ==
    /\ [](/\ Cardinality(errs) <= 1
          /\ errs # {} => /\ bpc = "panic"
                          /\ bl.ret = None
                          /\ uproc.starts = << >>
                          /\ spc = 0
          /\ bl.ret # None => errs = {} /\ Len(uproc.starts) = 1)
    /\ [][bpc = "panic" => UNCHANGED <<bootVars, shimVars, threadVars>>]_vars
C18_Witness ==
    /\ bpc = "panic"
    /\ errs = {"get_symbol_address"}
    /\ Named("vdso") # {}

\* C19: the shim records the thread id first, then waits for the run signal; it
\* switches to user code at most once and never before the signal; it never
\* completes: when the context switch returns it panics.
C19_Shim ==
    /\ shim.switches <= 1
    /\ shim.signalled_at_switch
    /\ shim.tid_before_wait
    /\ spc >= 2 => shim.tid_set
    /\ shim.switches = 1 => shim.waited /\ run_signal
    /\ spc <= Len(new_thread)
    /\ shim.switches = 1 /\ ~shim.in_user => Stmt = "panic"
    /\ shim.panicked => Stmt = "panic" /\ shim.switches = 1
C19_Witness == shim.panicked /\ shim.switches = 1 /\ shim.tid_set

\* ------------------------------------------------------------------ claims: threads

\* The statements of alloc and drop between taking the lock and giving it back.
InRegistry == {"alloc_pop", "alloc_pop_store", "alloc_unlock",
               "drop_push", "drop_push_store", "drop_unlock"}
\* The addresses threads hold in a call: popped and not yet returned, or being
\* dropped and not yet pushed.
Popped(t) ==
    IF tpc[t] \in {"alloc_unlock", "alloc_ret"} /\ tl[t].ret # None
    THEN {tl[t].ret[1]} ELSE {}
Dropping(t) ==
    IF tpc[t] \in {"drop_deref", "drop_init", "drop_lock", "drop_push", "drop_push_store"}
    THEN {tl[t].self[1].paddr} ELSE {}
InCall == UNION {Popped(t) \cup Dropping(t) : t \in Threads}
\* No address is at two places of a sequence.
NoRepeat(s) == \A i, j \in 1..Len(s) : s[i] = s[j] => i = j

\* C20: under every interleaving each alloc and each release is one critical
\* section on the registry, at most one thread being inside; no address is
\* handed out twice and no released address is lost; no thread holds the lock
\* of the registry during a pmem call; the registry is initialised exactly once.
C20_Concurrency ==
    /\ Cardinality({t \in Threads : tpc[t] \in InRegistry}) <= 1
    /\ \A t \in Threads : tpc[t] \in InRegistry <=> holder = Some(t)
    /\ NoRepeat(live) /\ NoRepeat(AVAILABLE_FRAMES)
    /\ \A t, u \in Threads :
          t # u => (Popped(t) \cup Dropping(t)) \cap (Popped(u) \cup Dropping(u)) = {}
    /\ LiveAddrs \cap InCall = {}
    /\ LiveAddrs \cap FreeAddrs = {}
    /\ FreeAddrs \cap InCall = {}
    /\ lazy = "done" =>
          LiveAddrs \cup FreeAddrs \cup InCall = {a \in FrameAddrs : a # 0}
    /\ \A t \in Threads : tpc[t] = "pmem" => holder # Some(t)
    /\ ninit <= 1
    /\ ninit = 1 <=> lazy = "done"
    /\ \A t \in Threads :
          tpc[t] \notin {"idle", "pmem", "alloc_deref", "drop_deref", "alloc_init",
                         "drop_init"} => lazy = "done"
C20_Witness ==
    /\ ninit = 1
    /\ Len(live) = 1
    /\ tpc[1] = "alloc_pop_store"
    /\ tpc[2] = "drop_lock"

====
